---- MODULE Spec2Model ----
(***************************************************************************)
(* canonicalwebteam.discourse: the Engage parser, the docs parser helpers  *)
(* and the request handlers, as state machines.                            *)
(*                                                                         *)
(* Strings are sequences of one-character strings, so that lstrip, join,   *)
(* lower/replace and the substring test are computed character by          *)
(* character.  A Python dict is a function; url_map, whose iteration order *)
(* is read by the code, is a sequence of <<key, value>> pairs with unique  *)
(* keys in insertion order.                                                *)
(*                                                                         *)
(* "CHOOSE out \in {F(x) : x \in {e}} : TRUE" is F(e), with e evaluated     *)
(* once and bound to x where F uses x several times.                       *)
(***************************************************************************)
EXTENDS Integers, Sequences, FiniteSets, TLC

VARIABLES
    call,                   \* one invocation of a pure function: [fn, args, done, ret]
    forum_index,            \* the raw index topic the forum API currently serves
    parser,                 \* the EngageParser instance: its attributes
    pc,                     \* per thread: the line of parse() it is about to run
    index_topic,            \* per thread: parse()'s local index_topic
    last_call               \* the last completed parser method call and its outcome

vars == <<call, forum_index, parser, pc, index_topic, last_call>>

None == "None"

(***************************************************************************)
(* Strings                                                                 *)
(***************************************************************************)
S_path == <<"p", "a", "t", "h">>
S_type == <<"t", "y", "p", "e">>
S_tags == <<"t", "a", "g", "s">>
S_topic_name == <<"t", "o", "p", "i", "c", "_", "n", "a", "m", "e">>

\* str.lower() on one character, for the characters of the header alphabet
lower(c) ==
    CASE c = "P" -> "p"
      [] c = "T" -> "t"
      [] c = "N" -> "n"
      [] OTHER -> c

\* str.replace(old, new) for a one-character old
replace(s, old, new) == [i \in 1..Len(s) |-> IF s[i] = old THEN new ELSE s[i]]

\* title_soup.text.lower().replace(" ", "_").replace("-", "_")
normalize_title(text) ==
    replace(replace([i \in 1..Len(text) |-> lower(text[i])], " ", "_"), "-", "_")

RECURSIVE lstrip(_, _)
\* str.lstrip(ch) for a one-character ch
lstrip(s, ch) == IF s # <<>> /\ Head(s) = ch THEN lstrip(Tail(s), ch) ELSE s

\* str.startswith(prefix)
startswith(s, prefix) ==
    Len(prefix) <= Len(s) /\ SubSeq(s, 1, Len(prefix)) = prefix

\* "a in b" for two strings: a is a substring of b
is_substring(a, b) ==
    \E i \in 0..(Len(b) - Len(a)) : SubSeq(b, i + 1, i + Len(a)) = a

\* os.path.join(a, b) (posixpath): an absolute b replaces a; otherwise b is
\* appended, after a "/" unless a is empty or already ends with one
os_path_join(a, b) ==
    IF startswith(b, <<"/">>) THEN b
    ELSE IF a = <<>> \/ a[Len(a)] = "/" THEN a \o b
    ELSE a \o <<"/">> \o b

Digits == <<"0", "1", "2", "3", "4", "5", "6", "7", "8", "9">>
IsDigit(c) == \E d \in 1..Len(Digits) : Digits[d] = c
DigitValue(c) == (CHOOSE d \in 1..Len(Digits) : Digits[d] = c) - 1

RECURSIVE int(_)
\* int(s) for a string of decimal digits
int(s) ==
    IF s = <<>> THEN 0 ELSE 10 * int(SubSeq(s, 1, Len(s) - 1)) + DigitValue(s[Len(s)])

RECURSIVE concat(_)
\* "".join(parts)
concat(parts) ==
    IF parts = <<>> THEN <<>> ELSE Head(parts) \o concat(Tail(parts))

(***************************************************************************)
(* HTML table cells.  A cell (td) is the sequence of its children; a child *)
(* is a text node or a link.  has_href tells whether a link carries an     *)
(* href attribute.                                                         *)
(***************************************************************************)
TextNode(s) == [tag |-> "text", has_href |-> FALSE, href |-> <<>>, text |-> s]
Link(h, s) == [tag |-> "a", has_href |-> TRUE, href |-> h, text |-> s]
LinkNoHref(s) == [tag |-> "a", has_href |-> FALSE, href |-> <<>>, text |-> s]

\* str(content): the child serialized back to HTML
serialize(node) ==
    IF node.tag = "text" THEN node.text
    ELSE IF ~node.has_href THEN <<"<a>">> \o node.text \o <<"</a>">>
    ELSE <<"<a href=\"">> \o node.href \o <<"\">">> \o node.text \o <<"</a>">>

\* value.text: the text of all descendants
cell_text(value) == concat([i \in 1..Len(value) |-> value[i].text])

\* the positions of the links of a cell
links(value) == {i \in 1..Len(value) : value[i].tag = "a"}

\* value.find("a"): the first link (callers test links(value) # {} first)
find_a(value) == value[CHOOSE i \in links(value) : \A j \in links(value) : i <= j]

\* value.findAll("a", href=True) is non-empty
has_href_link(value) == \E i \in links(value) : value[i].has_href

\* dict.__setitem__
Put(d, k, v) == [x \in (DOMAIN d) \cup {k} |-> IF x = k THEN v ELSE d[x]]

EmptyDict == [x \in {} |-> None]

(***************************************************************************)
(* EngageParser._parse_engage_metadata                                     *)
(***************************************************************************)
HardError(index, topic_name, title) ==
    [kind |-> "contains an error", index |-> index, topic_name |-> topic_name, title |-> title]

SoftError(index, topic_name, title) ==
    [kind |-> "is missing", index |-> index, topic_name |-> topic_name, title |-> title]

\* a slip in the else branch: the error is reported but the row is neither
\* set to None nor the loop left
parse_cell_nohref_no_break(titles, index, row_dict) ==
    IF index + 1 > Len(titles)
    THEN [exc |-> "IndexError", brk |-> FALSE, row_dict |-> row_dict, errors |-> <<>>]
    ELSE [exc |-> None, brk |-> FALSE, row_dict |-> row_dict,
          errors |-> <<HardError(index, row_dict[S_topic_name], titles[index + 1])>>]

\* lines 224-231: the cell has links but none with an href: the row is reported
\* and given up (brk: row_dict = None and break)
parse_cell_nohref(titles, index, row_dict) ==
    IF index + 1 > Len(titles)
    THEN [exc |-> "IndexError", brk |-> FALSE, row_dict |-> row_dict, errors |-> <<>>]
    ELSE [exc |-> None, brk |-> TRUE, row_dict |-> row_dict,
          errors |-> <<HardError(index, row_dict[S_topic_name], titles[index + 1])>>]

\* lines 233-250: the path/type check and the assignment of the cell's value
parse_cell_store(titles, index, value, contents, row_dict) ==
    IF index + 1 > Len(titles)
    THEN [exc |-> "IndexError", brk |-> FALSE, row_dict |-> row_dict, errors |-> <<>>]
    ELSE LET title == titles[index + 1]
             missing == (title = S_path \/ title = S_type) /\ cell_text(value) = <<>>
             stored == Put(row_dict, title,
                           concat([i \in 1..Len(contents) |-> serialize(contents[i])]))
         IN  IF missing /\ S_topic_name \notin DOMAIN row_dict
             THEN [exc |-> "KeyError", brk |-> FALSE, row_dict |-> row_dict, errors |-> <<>>]
             ELSE [exc |-> None, brk |-> FALSE, row_dict |-> stored,
                   errors |-> IF missing
                              THEN <<SoftError(index, row_dict[S_topic_name], title)>>
                              ELSE <<>>]

\* one iteration of the loop over row.select("td"); index is Python's 0-based index
parse_cell(titles, index, value, row_dict) ==
    IF links(value) = {}
    THEN parse_cell_store(titles, index, value, value, row_dict)
    ELSE CHOOSE out \in
             {IF has_href_link(value)
              THEN IF ~a.has_href
                   THEN [exc |-> "KeyError", brk |-> FALSE, row_dict |-> named,
                         errors |-> <<>>]
                   ELSE IF a.href = a.text
                   THEN parse_cell_store(titles, index, value,
                                         [value EXCEPT ![1] = TextNode(a.text)], named)
                   ELSE parse_cell_store(titles, index, value, value, named)
              ELSE parse_cell_nohref(titles, index, named) :
                 a \in {find_a(value)},
                 named \in {Put(row_dict, S_topic_name, find_a(value).text)}} : TRUE

RECURSIVE parse_cells(_, _, _, _)
\* the loop over the cells of one row, from 0-based index on; acc holds
\* row_dict and the errors of the row so far.  (Each iteration's outcome is
\* bound as an element of a one-element set, which evaluates it once.)
parse_cells(titles, row, index, acc) ==
    IF index + 1 > Len(row) THEN acc
    ELSE CHOOSE out \in
             {IF r.exc # None
              THEN [exc |-> r.exc, is_none |-> FALSE, row_dict |-> r.row_dict,
                    errors |-> acc.errors \o r.errors]
              ELSE IF r.brk
              THEN [exc |-> None, is_none |-> TRUE, row_dict |-> r.row_dict,
                    errors |-> acc.errors \o r.errors]
              ELSE parse_cells(titles, row, index + 1,
                               [exc |-> None, is_none |-> FALSE, row_dict |-> r.row_dict,
                                errors |-> acc.errors \o r.errors]) :
                 r \in {parse_cell(titles, index, row[index + 1], acc.row_dict)}} : TRUE

\* one iteration of the loop over metadata_soup.select("tr:has(td)")
parse_row(titles, row) ==
    parse_cells(titles, row, 0,
                [exc |-> None, is_none |-> FALSE, row_dict |-> EmptyDict, errors |-> <<>>])

\* a slip in "if row_dict:": the None left by a hard error is not told from a dict
truthy_ignoring_none(r) == DOMAIN r.row_dict # {}

\* "if row_dict:": a dict that is neither None nor empty
truthy(r) == ~r.is_none /\ DOMAIN r.row_dict # {}

RECURSIVE parse_rows(_, _, _, _)
\* the loop over the rows, from the n-th row on; acc holds topics_metadata
\* (records) and metadata_errors (errors) so far
parse_rows(titles, rows, n, acc) ==
    IF n > Len(rows) THEN acc
    ELSE CHOOSE out \in
             {IF r.exc # None
              THEN [exc |-> r.exc, records |-> <<>>, errors |-> <<>>]
              ELSE parse_rows(titles, rows, n + 1,
                              [exc |-> None,
                               records |-> IF truthy(r)
                                           THEN Append(acc.records, r.row_dict)
                                           ELSE acc.records,
                               errors |-> acc.errors \o r.errors]) :
                 r \in {parse_row(titles, rows[n])}} : TRUE

\* metadata_soup is the section found by _get_section: [found |-> whether the
\* heading exists, th |-> header cell texts, rows |-> the rows that have a td]
_parse_engage_metadata(metadata_soup) ==
    IF ~metadata_soup.found
    THEN [exc |-> None, records |-> <<>>, errors |-> <<>>]
    ELSE CHOOSE out \in
             {parse_rows(titles, rows, 1, [exc |-> None, records |-> <<>>, errors |-> <<>>]) :
                 titles \in {[i \in 1..Len(metadata_soup.th) |->
                                 normalize_title(metadata_soup.th[i])]},
                 rows \in {metadata_soup.rows}} : TRUE

(***************************************************************************)
(* Metadata tables the parser is applied to                                *)
(***************************************************************************)
MaxRows == 2

\* the children of one td
Cells ==
    { <<>>,
      <<TextNode(<<"x">>)>>,
      <<Link(<<"x">>, <<"x">>)>>,
      <<Link(<<"/", "o">>, <<"x">>)>>,
      <<LinkNoHref(<<"x">>)>>,
      <<LinkNoHref(<<"x">>), Link(<<"y">>, <<"y">>)>> }

\* the td cells of one tr that has a td
Rows == UNION {[1..n -> Cells] : n \in 1..2}

\* the texts of the th cells of the section
Headers ==
    { <<>>,
      <<<<"P", "a", "t", "h">>>>,
      <<<<"T", "o", "p", "i", "c">>, <<"P", "a", "t", "h">>>>,
      <<<<"T", "o", "p", "i", "c", " ", "N", "a", "m", "e">>, <<"T", "y", "p", "e">>>>,
      <<<<"P", "a", "t", "h">>, <<"T", "o", "p", "i", "c", "-", "n", "a", "m", "e">>>> }

Soups ==
    {[found |-> TRUE, th |-> h, rows |-> r] :
        h \in Headers, r \in UNION {[1..n -> Rows] : n \in 0..MaxRows}}
    \cup {[found |-> FALSE, th |-> <<>>, rows |-> <<>>]}

NoReturn == [exc |-> None, records |-> <<>>, errors |-> <<>>]

\* a specification of one pure function leaves the parser and the forum alone
NoParser ==
    /\ forum_index = None
    /\ parser = None
    /\ pc = <<>>
    /\ index_topic = <<>>
    /\ last_call = [op |-> "init", exc |-> None]

InitMeta ==
    /\ call \in {[fn |-> "_parse_engage_metadata", args |-> soup, done |-> FALSE,
                  ret |-> NoReturn] : soup \in Soups}
    /\ NoParser

CallParseEngageMetadata ==
    /\ ~call.done
    /\ call' = [call EXCEPT !.done = TRUE, !.ret = _parse_engage_metadata(call.args)]
    /\ UNCHANGED <<forum_index, parser, pc, index_topic, last_call>>

NextMeta == CallParseEngageMetadata

SpecMeta == InitMeta /\ [][NextMeta]_vars

(***************************************************************************)
(* Claims about _parse_engage_metadata                                     *)
(***************************************************************************)
Returned == call.done /\ call.ret.exc = None

\* a cell that holds a link but no link with an href attribute
CellWithoutHref(value) ==
    /\ \E i \in 1..Len(value) : value[i].tag = "a"
    /\ \A i \in 1..Len(value) : value[i].tag = "a" => ~value[i].has_href

\* a row the parser flags as a hard error
RowHard(row) == \E j \in 1..Len(row) : CellWithoutHref(row[j])

\* a row with a link whose href differs from its visible text
RowMismatch(row) ==
    \E j \in 1..Len(row) : \E i \in 1..Len(row[j]) :
        /\ row[j][i].tag = "a"
        /\ row[j][i].has_href
        /\ row[j][i].href # row[j][i].text

IsHard(e) == e.kind = "contains an error"
NotHard(row) == ~RowHard(row)
NotMismatch(row) == ~RowMismatch(row)

\* the topic name a hard row is reported under: the text of the first link of
\* its first cell without an href
HardName(row) ==
    LET j == CHOOSE k \in 1..Len(row) :
                 CellWithoutHref(row[k]) /\ \A m \in 1..(k - 1) : ~CellWithoutHref(row[m])
        i == CHOOSE k \in 1..Len(row[j]) :
                 row[j][k].tag = "a" /\ \A m \in 1..(k - 1) : row[j][m].tag # "a"
    IN  row[j][i].text

\* C4 as stated: whenever the parser returns, every row with a link whose
\* href differs from the link text is dropped from the records and has a hard
\* error, so the records are at most the other rows and the hard errors at
\* least the mismatching rows.
C4_MismatchRowsDropped ==
    Returned =>
        /\ Len(call.ret.records) <= Len(SelectSeq(call.args.rows, NotMismatch))
        /\ Len(SelectSeq(call.ret.errors, IsHard)) >= Len(SelectSeq(call.args.rows, RowMismatch))

\* C4 amended: whenever the parser returns, the rows dropped are exactly the
\* rows with a cell that holds a link but no link with an href, each has
\* exactly one hard error, in row order, naming the row's topic_name; a row
\* whose links have hrefs differing from their text is kept and has no hard
\* error.
C4_NoHrefRowsDropped ==
    Returned =>
        LET hard == SelectSeq(call.args.rows, RowHard)
            errs == SelectSeq(call.ret.errors, IsHard)
        IN  /\ Len(call.ret.records) = Len(call.args.rows) - Len(hard)
            /\ Len(errs) = Len(hard)
            /\ \A i \in 1..Len(hard) : errs[i].topic_name = HardName(hard[i])

\* a returned run with a dropped row and a kept row whose href differs from the text
C4_Witness ==
    /\ Returned
    /\ \E i \in 1..Len(call.args.rows) : RowHard(call.args.rows[i])
    /\ \E i \in 1..Len(call.args.rows) :
           RowMismatch(call.args.rows[i]) /\ ~RowHard(call.args.rows[i])
    /\ Len(call.ret.records) = 1

\* C5: _parse_engage_metadata never raises: every call ends by returning a
\* (records, errors) pair.
C5_NeverRaises == call.done => call.ret.exc = None

\* C6: whenever the parser returns, the records are the rows not flagged as a
\* hard error, one per row and in row order: record i has the columns of the
\* i-th such row and, under the row's last column, that row's last cell.
C6_RecordsAreValidRows ==
    Returned =>
        LET kept == SelectSeq(call.args.rows, NotHard)
            titles == [i \in 1..Len(call.args.th) |-> normalize_title(call.args.th[i])]
            recs == call.ret.records
        IN  /\ Len(recs) = Len(kept)
            /\ \A i \in 1..Len(kept) :
                   /\ {titles[j] : j \in 1..Len(kept[i])} \subseteq DOMAIN recs[i]
                   /\ \/ recs[i][titles[Len(kept[i])]] = cell_text(kept[i][Len(kept[i])])
                      \/ \E k \in 1..Len(kept[i][Len(kept[i])]) :
                             kept[i][Len(kept[i])][k].tag = "a"

\* a returned run that kept a row with an empty path cell (a soft error), after
\* dropping a row before it
C6_Witness ==
    /\ Returned
    /\ Len(call.args.rows) = 2
    /\ RowHard(call.args.rows[1])
    /\ ~RowHard(call.args.rows[2])
    /\ \E e \in {call.ret.errors[i] : i \in 1..Len(call.ret.errors)} : e.kind = "is missing"
    /\ Len(call.ret.records) = 1

(***************************************************************************)
(* discourse_docs/parsers.py: TOPIC_URL_MATCH and resolve_path             *)
(***************************************************************************)
RECURSIVE run_length(_, _, _)
\* the length of the longest run of characters from position p on that are
\* digits (digits = TRUE) or are not "/" (digits = FALSE)
run_length(s, p, digits) ==
    IF p > Len(s) THEN 0
    ELSE IF (digits /\ IsDigit(s[p])) \/ (~digits /\ s[p] # "/")
    THEN 1 + run_length(s, p + 1, digits)
    ELSE 0

\* the positions at which "/(?P<topic_id>\d+)" is tried, in the order the
\* backtracking matcher tries them: with and without the optional "/t", and
\* for each with and without the optional "/slug".  A slug shorter than its
\* run of non-"/" characters is followed by a non-"/", so only the whole run
\* can be followed by "/".
topic_id_positions(path) ==
    LET after(p) ==
            IF p <= Len(path) /\ path[p] = "/" /\ run_length(path, p + 1, FALSE) >= 1
            THEN <<p + 1 + run_length(path, p + 1, FALSE), p>>
            ELSE <<p>>
    IN  IF startswith(path, <<"/", "t">>) THEN after(3) \o after(1) ELSE after(1)

\* "/\d+" matches at position q
topic_id_at(path, q) ==
    q + 1 <= Len(path) /\ path[q] = "/" /\ IsDigit(path[q + 1])

\* TOPIC_URL_MATCH.match(path): whether it matches at the start of path, and
\* the topic_id group (\d+ is greedy, and what follows it is optional)
TOPIC_URL_MATCH(path) ==
    CHOOSE out \in
        {LET hits == {k \in 1..Len(tries) : topic_id_at(p, tries[k])}
         IN  IF hits = {}
             THEN [matched |-> FALSE, topic_id |-> <<>>]
             ELSE LET q == tries[CHOOSE k \in hits : \A m \in hits : k <= m]
                  IN  [matched |-> TRUE,
                       topic_id |-> SubSeq(p, q + 1, q + run_length(p, q + 1, TRUE))] :
            p \in {path}, tries \in {topic_id_positions(path)}} : TRUE

\* resolve_path(path) of the docs parsers
docs_resolve_path(path) ==
    CHOOSE out \in
        {IF ~topic_match.matched
         THEN [exc |-> "PathNotFoundError", target |-> path, value |-> 0]
         ELSE [exc |-> None, target |-> <<>>, value |-> int(topic_match.topic_id)] :
            topic_match \in {TOPIC_URL_MATCH(path)}} : TRUE

MaxPathLen == 7

PathChars == {"/", "t", "s", "4", "2"}

Paths == UNION {[1..n -> PathChars] : n \in 0..MaxPathLen}

\* url maps a docs parser may hold when the path is resolved: canonical path
\* of a topic id, as <<path, id>> pairs
DocsUrlMaps ==
    { <<>>,
      << <<<<"/", "d", "/", "i">>, 42>> >>,
      << <<<<"/", "d", "/", "i">>, 42>>, <<<<"/", "4">>, 4>> >> }

InitDocs ==
    /\ call \in {[fn |-> "resolve_path", args |-> [path |-> path, url_map |-> m],
                  done |-> FALSE, ret |-> [exc |-> None, target |-> <<>>, value |-> 0]] :
                    path \in Paths, m \in DocsUrlMaps}
    /\ NoParser

CallDocsResolvePath ==
    /\ ~call.done
    /\ call' = [call EXCEPT !.done = TRUE, !.ret = docs_resolve_path(call.args.path)]
    /\ UNCHANGED <<forum_index, parser, pc, index_topic, last_call>>

NextDocs == CallDocsResolvePath

SpecDocs == InitDocs /\ [][NextDocs]_vars

\* a forum-native path: /t/{slug}/{id} or /{id}, with its identifier
ForumNative(path, id) ==
    \E n \in 1..Len(path) :
        /\ \A i \in (Len(path) - n + 1)..Len(path) : IsDigit(path[i])
        /\ int(SubSeq(path, Len(path) - n + 1, Len(path))) = id
        /\ LET head == SubSeq(path, 1, Len(path) - n)
           IN  \/ head = <<"/">>
               \/ /\ Len(head) >= 5
                  /\ SubSeq(head, 1, 3) = <<"/", "t", "/">>
                  /\ head[Len(head)] = "/"
                  /\ \A i \in 4..(Len(head) - 1) : head[i] # "/"

\* the canonical path of id in a url map is c
Canonical(m, id, c) ==
    \E k \in 1..Len(m) :
        /\ m[k] = <<c, id>>
        /\ \A j \in 1..(k - 1) : m[j][2] # id

\* C3: resolving a forum-native path whose identifier has a canonical path in
\* url_map other than the requested path signals RedirectFoundError with that
\* canonical path, instead of returning the identifier.
C3_RedirectToCanonical ==
    call.done =>
        \A k \in 1..Len(call.args.url_map) :
            LET c == call.args.url_map[k][1]
                id == call.args.url_map[k][2]
            IN  (/\ ForumNative(call.args.path, id)
                 /\ Canonical(call.args.url_map, id, c)
                 /\ c # call.args.path)
                => (call.ret.exc = "RedirectFoundError" /\ call.ret.target = c)

(***************************************************************************)
(* Raw topics, as the forum API returns them.  cooked, the HTML of the     *)
(* first post, is the sequence of its top-level nodes; of a node only its  *)
(* kind and the td texts of the tr rows inside it are read.  The index     *)
(* topic also holds the "Metadata" and "Takeovers" sections.               *)
(***************************************************************************)
TopicNode(kind, rows) == [kind |-> kind, rows |-> rows]

NoSection == [found |-> FALSE, th |-> <<>>, rows |-> <<>>]

\* BaseParser._get_section(index_soup, section_name): the section under the
\* heading of that name, absent when there is no such heading
_get_section(index_soup, section_name) ==
    IF section_name = "Metadata" THEN index_soup.Metadata ELSE index_soup.Takeovers

\* the path -> id entry and the id -> path entry of a url_map
PathEntry(path, id) == [key_is_path |-> TRUE, path |-> path, id |-> id]
IdEntry(id, path) == [key_is_path |-> FALSE, path |-> path, id |-> id]

\* "key in url_map" and url_map[key] for a path key
has_path(m, path) == \E k \in 1..Len(m) : m[k].key_is_path /\ m[k].path = path
get_path(m, path) ==
    m[CHOOSE k \in 1..Len(m) : m[k].key_is_path /\ m[k].path = path].id
has_id(m, id) == \E k \in 1..Len(m) : ~m[k].key_is_path /\ m[k].id = id

UrlMapWarning(row) == [kind |-> "Could not parse URL map item", row |-> row]

\* what one row of the table gives the URL map: the text of its "path" cell
\* and the topic id in the target of its first link with an href
url_row(titles, row) ==
    CHOOSE out \in
        {IF cols = {} \/ hrefs = {} THEN [ok |-> FALSE, path |-> <<>>, id |-> 0]
         ELSE CHOOSE res \in
                  {IF ~m.matched THEN [ok |-> FALSE, path |-> <<>>, id |-> 0]
                   ELSE [ok |-> TRUE,
                         path |-> cell_text(row[CHOOSE j \in cols : \A k \in cols : j <= k]),
                         id |-> int(m.topic_id)] :
                      m \in {LET first == CHOOSE c \in hrefs : \A d \in hrefs :
                                              c[1] < d[1] \/ (c[1] = d[1] /\ c[2] <= d[2])
                             IN  TOPIC_URL_MATCH(row[first[1]][first[2]].href)}} : TRUE :
            cols \in {{j \in 1..Len(row) : j <= Len(titles) /\ titles[j] = S_path}},
            hrefs \in {UNION {{<<j, i>> : i \in {k \in 1..Len(row[j]) :
                                         row[j][k].tag = "a" /\ row[j][k].has_href}} :
                               j \in 1..Len(row)}}} : TRUE

\* the URL map and the warnings after one more row
url_rows_step(titles, row, url_prefix, acc) ==
    IF \E j \in 1..Len(row) : links(row[j]) # {} /\ ~has_href_link(row[j]) THEN acc
    ELSE CHOOSE out \in
             {IF ~u.ok \/ ~startswith(u.path, url_prefix)
              THEN [acc EXCEPT !.warnings = Append(acc.warnings, UrlMapWarning(row))]
              ELSE IF has_path(acc.url_map, u.path) THEN acc
              ELSE IF has_id(acc.url_map, u.id)
              THEN [acc EXCEPT !.url_map = Append(acc.url_map, PathEntry(u.path, u.id))]
              ELSE [acc EXCEPT !.url_map = acc.url_map \o
                                     <<PathEntry(u.path, u.id), IdEntry(u.id, u.path)>>] :
                 u \in {url_row(titles, row)}} : TRUE

RECURSIVE url_rows(_, _, _, _, _)
url_rows(titles, rows, n, url_prefix, acc) ==
    IF n > Len(rows) THEN acc
    ELSE CHOOSE out \in
             {url_rows(titles, rows, n + 1, url_prefix, a) :
                 a \in {CHOOSE step \in {url_rows_step(titles, row, url_prefix, acc) :
                                          row \in {rows[n]}} : TRUE}} : TRUE

\* BaseParser._parse_url_map(index_soup, url_prefix, index_topic_id,
\* url_section_name): the paths of the table, which carry the URL prefix, to
\* the topic ids of their rows' link targets; hard-error rows are skipped, the
\* first row of a path and the first path of an id win
_parse_url_map(index_soup, url_prefix, index_topic_id, url_section_name) ==
    CHOOSE out \in
        {IF ~url_soup.found THEN [url_map |-> <<>>, warnings |-> <<>>]
         ELSE CHOOSE res \in
                  {url_rows(titles, rows, 1, url_prefix,
                            [url_map |-> <<>>, warnings |-> <<>>]) :
                      titles \in {[i \in 1..Len(url_soup.th) |->
                                      normalize_title(url_soup.th[i])]},
                      rows \in {url_soup.rows}} : TRUE :
            url_soup \in {_get_section(index_soup, url_section_name)}} : TRUE

(***************************************************************************)
(* EngageParser.resolve_path                                               *)
(***************************************************************************)
\* a slip: the leading slashes are kept, and os.path.join drops the prefix
resolve_path_no_lstrip(self, relative_path) ==
    CHOOSE out \in
        {IF has_path(self.url_map, full_path)
         THEN [exc |-> None, value |-> get_path(self.url_map, full_path)]
         ELSE [exc |-> "PathNotFoundError", value |-> 0] :
            full_path \in {os_path_join(self.url_prefix, relative_path)}} : TRUE

resolve_path(self, relative_path) ==
    CHOOSE out \in
        {IF has_path(self.url_map, full_path)
         THEN [exc |-> None, value |-> get_path(self.url_map, full_path)]
         ELSE [exc |-> "PathNotFoundError", value |-> 0] :
            full_path \in {os_path_join(self.url_prefix, lstrip(relative_path, "/"))}} : TRUE

(***************************************************************************)
(* EngageParser.parse_topic and EngageParser._parse_related                *)
(***************************************************************************)
RECURSIVE str_int(_)
\* str(n) for n >= 0
str_int(n) == IF n < 10 THEN <<Digits[n + 1]>> ELSE str_int(n \div 10) \o <<Digits[(n % 10) + 1]>>

\* humanize.naturaltime(updated_datetime): a phrase relative to the clock at
\* the call, kept symbolic
naturaltime(updated_at) == <<"naturaltime", updated_at>>

NoDocument == [title |-> None]

RECURSIVE dict_update(_, _)
\* dict.update(pairs) with a list of lists: every element has to have length
\* 2; the pairs before a bad element are already stored when ValueError is raised
dict_update(d, pairs) ==
    IF pairs = <<>> THEN [exc |-> None, d |-> d]
    ELSE IF Len(Head(pairs)) # 2 THEN [exc |-> "ValueError", d |-> d]
    ELSE CHOOSE out \in
             {dict_update(d2, Tail(pairs)) :
                 d2 \in {Put(d, Head(pairs)[1], Head(pairs)[2])}} : TRUE

\* dict.update(other) with a dict
dict_merge(d, other) ==
    [x \in (DOMAIN d) \cup (DOMAIN other) |-> IF x \in DOMAIN other THEN other[x] ELSE d[x]]

\* _parse_related(tags): the positions in self.metadata of the items kept by
\* 'item["tags"] in tags', a substring test on the two tags strings
_parse_related(self, tags) ==
    IF \E i \in 1..Len(self.metadata) : S_tags \notin DOMAIN self.metadata[i]
    THEN [exc |-> "KeyError", index_list |-> <<>>]
    ELSE LET keep == {i \in 1..Len(self.metadata) :
                         is_substring(self.metadata[i][S_tags], tags)}
             pos(k) == CHOOSE i \in keep : Cardinality({j \in keep : j <= i}) = k
         IN  [exc |-> None, index_list |-> [k \in 1..Cardinality(keep) |-> pos(k)]]

\* lines 102-125 of parse_topic: item is the position in self.metadata of the
\* item found at line 98
parse_topic_found(self, topic, content, item) ==
    CHOOSE out \in
        {IF S_tags \notin DOMAIN merged
         THEN [exc |-> "KeyError", doc |-> NoDocument, self |-> self2]
         ELSE CHOOSE res \in
                  {IF related.exc # None
                   THEN [exc |-> related.exc, doc |-> NoDocument, self |-> self2]
                   ELSE [exc |-> None,
                         doc |-> [title |-> topic.title,
                                  metadata_ref |-> item,
                                  metadata |-> merged,
                                  body_html |-> content,
                                  updated |-> naturaltime(topic.updated_at),
                                  related |-> related.index_list,
                                  topic_path |-> <<"/", "t", "/">> \o topic.slug \o <<"/">>
                                                   \o str_int(topic.id)],
                         self |-> self2] :
                      related \in {_parse_related(self2, merged[S_tags])}} : TRUE :
            merged \in {dict_merge(self.metadata[item], self.current_topic)},
            self2 \in {[self EXCEPT
                            !.metadata[item] = dict_merge(self.metadata[item],
                                                          self.current_topic),
                            !.current_topic_metadata = dict_merge(self.metadata[item],
                                                                  self.current_topic)]}} : TRUE

\* lines 94-100: the two lookups by next(); lines 102-125 follow when both find
parse_topic_lookup(self, topic, content) ==
    CHOOSE out \in
        {IF paths = {} THEN [exc |-> "StopIteration", doc |-> NoDocument, self |-> self]
         ELSE CHOOSE res \in
                  {IF \E n \in nopath : \A i \in hits : n < i
                   THEN [exc |-> "KeyError", doc |-> NoDocument, self |-> self]
                   ELSE IF hits = {}
                   THEN [exc |-> "StopIteration", doc |-> NoDocument, self |-> self]
                   ELSE parse_topic_found(self, topic, content,
                                          CHOOSE i \in hits : \A j \in hits : i <= j) :
                      hits \in {LET current_topic_path ==
                                        self.url_map[CHOOSE k \in paths :
                                                         \A j \in paths : k <= j].path
                                IN  {i \in 1..Len(self.metadata) :
                                        S_path \in DOMAIN self.metadata[i]
                                        /\ self.metadata[i][S_path] = current_topic_path}},
                      nopath \in {{i \in 1..Len(self.metadata) :
                                      S_path \notin DOMAIN self.metadata[i]}}} : TRUE :
            paths \in {{k \in 1..Len(self.url_map) :
                           self.url_map[k].key_is_path /\ self.url_map[k].id = topic.id}}} : TRUE

\* parse_topic(topic): the outcome, the Document and the parser afterwards.
\* Document.metadata is the very dict held in self.metadata (metadata_ref is
\* its position), and related holds positions in self.metadata.
parse_topic(self, topic) ==
    CHOOSE out \in
        {IF topic.cooked = <<>>
         THEN [exc |-> "IndexError", doc |-> NoDocument, self |-> self1]
         ELSE IF topic.cooked[1].kind = "text"
         THEN [exc |-> "TypeError", doc |-> NoDocument, self |-> self1]
         ELSE IF topic.cooked[1].rows = <<>>
         THEN parse_topic_lookup(self1, topic, <<>>)
         ELSE CHOOSE res \in
                  {IF u.exc # None
                   THEN [exc |-> u.exc, doc |-> NoDocument, self |-> self2]
                   ELSE parse_topic_lookup(self2, topic, Tail(topic.cooked)) :
                      u \in {dict_update(EmptyDict, Tail(topic.cooked[1].rows))},
                      self2 \in {[self1 EXCEPT !.current_topic =
                                     dict_update(EmptyDict, Tail(topic.cooked[1].rows)).d]}} : TRUE :
            self1 \in {[self EXCEPT !.current_topic = EmptyDict]}} : TRUE

(***************************************************************************)
(* EngageParser.parse, line by line                                        *)
(***************************************************************************)
\* lines 35-37
parse_l35(self, topic) ==
    CHOOSE out \in
        {[self EXCEPT !.url_map = r.url_map, !.warnings = r.warnings] :
            r \in {_parse_url_map(topic, self.url_prefix, self.index_topic_id,
                                  "Metadata")}} : TRUE

\* lines 39-41 and 45-47: the two calls of the table parser
engage_metadata(topic) == _parse_engage_metadata(_get_section(topic, "Metadata"))
takeovers_metadata(topic) == _parse_engage_metadata(_get_section(topic, "Takeovers"))

\* a slip: the records are kept from the first parse() on, not rebuilt
parse_l42_keep_records(self, engage) ==
    IF self.metadata = <<>> THEN [self EXCEPT !.metadata = engage.records] ELSE self

\* lines 42-43 and 48-49, given the (records, errors) pairs the two calls returned
parse_l42(self, engage) == [self EXCEPT !.metadata = engage.records]

parse_l43(self, engage) == [self EXCEPT !.engage_page_errors = engage.errors]

parse_l48(self, takeovers) == [self EXCEPT !.takeovers = takeovers.records]

\* a slip of copy and paste: the errors of the "Metadata" section are stored again
parse_l49_engage_errors(self, engage, takeovers) ==
    [self EXCEPT !.takeovers_errors = engage.errors]

parse_l49(self, engage, takeovers) == [self EXCEPT !.takeovers_errors = takeovers.errors]

\* lines 51-53
parse_l51(self, topic) ==
    IF topic.id # self.index_topic_id
    THEN CHOOSE out \in
             {IF r.exc # None THEN [exc |-> r.exc, self |-> r.self]
              ELSE [exc |-> None, self |-> [r.self EXCEPT !.index_document = r.doc]] :
                 r \in {parse_topic(self, topic)}} : TRUE
    ELSE [exc |-> None, self |-> self]

\* parse() on the index topic the fetch returned: the outcome and the parser
\* afterwards.  An exception leaves the attributes assigned before it.
parse(self, topic) ==
    CHOOSE out \in
        {IF engage.exc # None THEN [exc |-> engage.exc, self |-> s35]
         ELSE CHOOSE res \in
                  {IF takeovers.exc # None THEN [exc |-> takeovers.exc, self |-> s43]
                   ELSE CHOOSE fin \in
                            {parse_l51(s49, topic) :
                                s49 \in {parse_l49(parse_l48(s43, takeovers),
                                                   engage, takeovers)}} : TRUE :
                      s43 \in {parse_l43(parse_l42(s35, engage), engage)},
                      takeovers \in {takeovers_metadata(topic)}} : TRUE :
            s35 \in {parse_l35(self, topic)},
            engage \in {engage_metadata(topic)}} : TRUE

(***************************************************************************)
(* The forum: index topics and content topics                              *)
(***************************************************************************)
Txt(s) == <<TextNode(s)>>

MetadataHeader ==
    << <<"T", "o", "p", "i", "c">>, <<"P", "a", "t", "h">>,
       <<"T", "y", "p", "e">>, <<"T", "a", "g", "s">> >>

\* topic 4 at /e/a, tags a,b
RowA ==
    << <<Link(<<"/", "t", "/", "a", "/", "4">>, <<"A">>)>>, Txt(<<"/", "e", "/", "a">>),
       Txt(<<"w">>), Txt(<<"a", ",", "b">>) >>

\* topic 5 at /e/e, tags b,c
RowB ==
    << <<Link(<<"/", "t", "/", "b", "/", "5">>, <<"B">>)>>, Txt(<<"/", "e", "/", "e">>),
       Txt(<<"w">>), Txt(<<"b", ",", "c">>) >>

\* topic 6 at /e/a/a, no type (a soft error), tags b
RowC ==
    << <<Link(<<"/", "t", "/", "c", "/", "6">>, <<"C">>)>>,
       Txt(<<"/", "e", "/", "a", "/", "a">>), <<>>, Txt(<<"b">>) >>

\* a link without href (a hard error)
RowD ==
    << <<LinkNoHref(<<"D">>)>>, Txt(<<"/", "e", "/", "d">>), Txt(<<"w">>), Txt(<<"a">>) >>

\* topic 2 at /e/x, tags a
RowX ==
    << <<Link(<<"/", "t", "/", "x", "/", "2">>, <<"X">>)>>, Txt(<<"/", "e", "/", "x">>),
       Txt(<<"w">>), Txt(<<"a">>) >>

\* the index topic itself (topic 1) at /e/a/e, no tags
RowI ==
    << <<Link(<<"/", "t", "/", "i", "/", "1">>, <<"I">>)>>,
       Txt(<<"/", "e", "/", "a", "/", "e">>), Txt(<<"w">>), <<>> >>

Section(th, rows) == [found |-> TRUE, th |-> th, rows |-> rows]

IndexTopic(id, cooked, meta, take) ==
    [id |-> id, slug |-> <<"i">>, title |-> "index", updated_at |-> "t0",
     cooked |-> cooked, Metadata |-> meta, Takeovers |-> take]

IndexTopics ==
    { IndexTopic(1, <<TopicNode("element", <<>>)>>,
                 Section(MetadataHeader, <<RowA, RowB, RowC>>), NoSection),
      IndexTopic(1, <<TopicNode("element", <<>>)>>,
                 Section(MetadataHeader, <<RowB, RowD, RowA, RowI>>),
                 Section(<< <<"T", "o", "p", "i", "c">>, <<"T", "y", "p", "e">> >>,
                         << << <<Link(<<"/", "t", "/", "k", "/", "8">>, <<"K">>)>>, <<>> >> >>)),
      IndexTopic(2, <<TopicNode("element", << <<>>, <<S_tags, <<"a", ",", "c">>>> >>),
                    TopicNode("element", <<>>)>>,
                 Section(MetadataHeader, <<RowX, RowA>>),
                 Section(<< <<"T", "o", "p", "i", "c">> >>, << << <<LinkNoHref(<<"T">>)>> >> >>)),
      IndexTopic(1, <<TopicNode("element", <<>>)>>,
                 Section(<< <<"P", "a", "t", "h">>, <<"T", "o", "p", "i", "c">> >>,
                         << << <<>>, <<Link(<<"/", "t", "/", "a", "/", "4">>, <<"A">>)>> >> >>),
                 NoSection) }

\* the first post of a content topic
Cookeds ==
    { <<TopicNode("element", << <<>>, <<S_tags, <<"c">>>> >>), TopicNode("element", <<>>)>>,
      <<TopicNode("element", <<>>), TopicNode("element", <<>>)>>,
      <<TopicNode("element", << <<>>, <<<<"x">>>> >>)>>,
      <<TopicNode("text", <<>>)>>,
      <<>> }

\* topic 9 is in no table
Topics ==
    {[id |-> id, slug |-> <<"s">>, title |-> "topic", updated_at |-> "t1", cooked |-> c] :
        id \in {4, 5, 6, 9}, c \in Cookeds}

UrlPrefixes == {<<"/", "e">>, <<"/", "e", "/">>}

MaxRelPathLen == 4

RelPaths == UNION {[1..n -> {"/", "a", "e"}] : n \in 0..MaxRelPathLen}

\* BaseParser.__init__: the parser right after construction
NewParser(url_prefix) ==
    [url_prefix |-> url_prefix, index_topic_id |-> 1,
     url_map |-> <<>>, warnings |-> <<>>, metadata |-> <<>>,
     engage_page_errors |-> <<>>, takeovers |-> <<>>, takeovers_errors |-> <<>>,
     index_document |-> NoDocument, current_topic |-> EmptyDict,
     current_topic_metadata |-> EmptyDict]

(***************************************************************************)
(* One thread calling the methods of one parser, one call per step.        *)
(* last_call keeps the call and its outcome, and for parse_topic the       *)
(* parser as the call began.                                               *)
(***************************************************************************)
Init ==
    /\ call = None
    /\ forum_index \in IndexTopics
    /\ parser = NewParser(<<"/", "e">>)
    /\ pc = <<>>
    /\ index_topic = <<>>
    /\ last_call = [op |-> "init", exc |-> None]

\* the index topic is edited on the forum
EditIndexTopic ==
    /\ forum_index' \in IndexTopics \ {forum_index}
    /\ UNCHANGED <<call, parser, pc, index_topic, last_call>>

\* a request goes on after parse() only when parse() returned
Ready == last_call.op # "init" /\ ~(last_call.op = "parse" /\ last_call.exc # None)

Parse ==
    /\ \E r \in {parse(parser, forum_index)} :
           /\ parser' = r.self
           /\ last_call' = [op |-> "parse", exc |-> r.exc, topic |-> forum_index]
    /\ UNCHANGED <<call, forum_index, pc, index_topic>>

ParseTopic ==
    /\ Ready
    /\ \E topic \in Topics : \E r \in {parse_topic(parser, topic)} :
           /\ parser' = r.self
           /\ last_call' = [op |-> "parse_topic", exc |-> r.exc, topic |-> topic,
                            doc |-> r.doc, before |-> parser]
    /\ UNCHANGED <<call, forum_index, pc, index_topic>>

Next == EditIndexTopic \/ Parse \/ ParseTopic

Spec == Init /\ [][Next]_vars

(***************************************************************************)
(* Requests resolving paths against the url_map of the last parse()        *)
(***************************************************************************)
InitResolve ==
    /\ call = None
    /\ forum_index \in IndexTopics
    /\ parser \in {NewParser(url_prefix) : url_prefix \in UrlPrefixes}
    /\ pc = <<>>
    /\ index_topic = <<>>
    /\ last_call = [op |-> "init", exc |-> None]

\* document_view resolves the request path right after parse() returned
ResolvePath ==
    /\ last_call.op = "parse"
    /\ last_call.exc = None
    /\ \E relative_path \in RelPaths : \E r \in {resolve_path(parser, relative_path)} :
           last_call' = [op |-> "resolve_path", exc |-> r.exc, path |-> relative_path,
                         value |-> r.value, before |-> parser]
    /\ UNCHANGED <<call, forum_index, parser, pc, index_topic>>

NextResolve == EditIndexTopic \/ Parse \/ ResolvePath

SpecResolve == InitResolve /\ [][NextResolve]_vars

(***************************************************************************)
(* Claims about EngageParser.resolve_path                                  *)
(***************************************************************************)
\* p without its leading slashes
Stripped(p) ==
    LET n == CHOOSE k \in 0..Len(p) :
                 (\A i \in 1..k : p[i] = "/") /\ (k = Len(p) \/ p[k + 1] # "/")
    IN  SubSeq(p, n + 1, Len(p))

\* the prefix joined with a path that has no leading slash
Joined(url_prefix, q) ==
    IF url_prefix = <<>> \/ url_prefix[Len(url_prefix)] = "/"
    THEN url_prefix \o q
    ELSE url_prefix \o <<"/">> \o q

\* C2: resolve_path(p) returns url_map[key], key being url_prefix joined with
\* p stripped of its leading slashes, when key is a key of url_map (so every
\* path inserted for an identifier resolves back to it), raises
\* PathNotFoundError otherwise, and leaves the parser as it was.
C2_ResolveJoinedPath ==
    last_call.op = "resolve_path" =>
        LET m == last_call.before.url_map
            key == Joined(last_call.before.url_prefix, Stripped(last_call.path))
            entries == {k \in 1..Len(m) : m[k].key_is_path /\ m[k].path = key}
        IN  /\ entries # {} =>
                  /\ last_call.exc = None
                  /\ \A k \in entries : last_call.value = m[k].id
            /\ entries = {} => last_call.exc = "PathNotFoundError"
            /\ parser = last_call.before

\* a path with two leading slashes resolved under a prefix ending in a slash
C2_Witness ==
    /\ last_call.op = "resolve_path"
    /\ last_call.exc = None
    /\ Len(last_call.path) >= 3
    /\ last_call.path[1] = "/"
    /\ last_call.path[2] = "/"
    /\ last_call.before.url_prefix = <<"/", "e", "/">>
    /\ last_call.value = 4

(***************************************************************************)
(* Claims about EngageParser.parse and EngageParser.parse_topic            *)
(***************************************************************************)
ParseReturned == last_call.op = "parse" /\ last_call.exc = None

\* the errors the table parser produced for the two sections of a topic
TableErrors(topic) ==
    {engage_metadata(topic).errors[i] : i \in 1..Len(engage_metadata(topic).errors)}
    \cup {takeovers_metadata(topic).errors[i] :
             i \in 1..Len(takeovers_metadata(topic).errors)}

Orphan(url_map, id) ==
    \A k \in 1..Len(url_map) : url_map[k].key_is_path => url_map[k].id # id

\* C8: parse_topic on a topic whose identifier is the value of no entry in
\* url_map fails with OrphanTopicError and leaves url_map and metadata as
\* they were before the call.
C8_OrphanTopicError ==
    (last_call.op = "parse_topic" /\ Orphan(last_call.before.url_map, last_call.topic.id)) =>
        /\ last_call.exc = "OrphanTopicError"
        /\ parser.url_map = last_call.before.url_map
        /\ parser.metadata = last_call.before.metadata

\* the tags of a comma-separated tags string
Tags(s) ==
    {SubSeq(s, x[1], x[2]) :
        x \in {y \in (1..Len(s)) \X (1..Len(s)) :
                  /\ y[1] <= y[2]
                  /\ \A i \in y[1]..y[2] : s[i] # ","
                  /\ (y[1] = 1 \/ s[y[1] - 1] = ",")
                  /\ (y[2] = Len(s) \/ s[y[2] + 1] = ",")}}

\* C9: the related list of a Document returned by parse_topic is the records
\* of the metadata table, in table order, that have at least one tag in common
\* with the tags of the document's merged record.
C9_RelatedShareATag ==
    (last_call.op = "parse_topic" /\ last_call.exc = None) =>
        LET related == last_call.doc.related
            sharing == {i \in 1..Len(parser.metadata) :
                           Tags(parser.metadata[i][S_tags])
                               \cap Tags(last_call.doc.metadata[S_tags]) # {}}
        IN  /\ {related[k] : k \in 1..Len(related)} = sharing
            /\ \A k \in 1..(Len(related) - 1) : related[k] < related[k + 1]

(***************************************************************************)
(* parse() running in threads of one process that share the parser, one    *)
(* statement per step, and a reader of the parser's attributes.            *)
(***************************************************************************)
NumThreads == 1

Threads == 1..NumThreads

NoTopic == [id |-> 0]

\* the index topics whose parse() returns
ReturningIndexTopics ==
    {t \in IndexTopics : parse(NewParser(<<"/", "e">>), t).exc = None}

InitConc ==
    /\ call = None
    /\ forum_index \in ReturningIndexTopics
    /\ parser = NewParser(<<"/", "e">>)
    /\ pc = [t \in Threads |-> "idle"]
    /\ index_topic = [t \in Threads |-> NoTopic]
    /\ last_call = [op |-> "init", exc |-> None]

EditServedIndexTopic ==
    /\ forum_index' \in ReturningIndexTopics \ {forum_index}
    /\ UNCHANGED <<call, parser, pc, index_topic, last_call>>

\* line 28: index_topic = self.api.get_topic(self.index_topic_id)
ParseL28(t) ==
    /\ pc[t] = "idle"
    /\ pc' = [pc EXCEPT ![t] = "l35"]
    /\ index_topic' = [index_topic EXCEPT ![t] = forum_index]
    /\ UNCHANGED <<call, forum_index, parser, last_call>>

\* lines 35-37: self.url_map, self.warnings = ...
ParseL35(t) ==
    /\ pc[t] = "l35"
    /\ parser' = parse_l35(parser, index_topic[t])
    /\ pc' = [pc EXCEPT ![t] = "l42"]
    /\ UNCHANGED <<call, forum_index, index_topic, last_call>>

\* lines 39-42: the call of the table parser, which may raise, and
\* self.metadata = ...
ParseL42(t) ==
    /\ pc[t] = "l42"
    /\ \E engage \in {engage_metadata(index_topic[t])} :
           IF engage.exc # None
           THEN /\ pc' = [pc EXCEPT ![t] = "idle"]
                /\ index_topic' = [index_topic EXCEPT ![t] = NoTopic]
                /\ UNCHANGED parser
           ELSE /\ parser' = parse_l42(parser, engage)
                /\ pc' = [pc EXCEPT ![t] = "l43"]
                /\ UNCHANGED index_topic
    /\ UNCHANGED <<call, forum_index, last_call>>

\* line 43: self.engage_page_errors = ...
ParseL43(t) ==
    /\ pc[t] = "l43"
    /\ parser' = parse_l43(parser, engage_metadata(index_topic[t]))
    /\ pc' = [pc EXCEPT ![t] = "l48"]
    /\ UNCHANGED <<call, forum_index, index_topic, last_call>>

\* lines 45-48: the call of the table parser, which may raise, and
\* self.takeovers = ...
ParseL48(t) ==
    /\ pc[t] = "l48"
    /\ \E takeovers \in {takeovers_metadata(index_topic[t])} :
           IF takeovers.exc # None
           THEN /\ pc' = [pc EXCEPT ![t] = "idle"]
                /\ index_topic' = [index_topic EXCEPT ![t] = NoTopic]
                /\ UNCHANGED parser
           ELSE /\ parser' = parse_l48(parser, takeovers)
                /\ pc' = [pc EXCEPT ![t] = "l49"]
                /\ UNCHANGED index_topic
    /\ UNCHANGED <<call, forum_index, last_call>>

\* line 49: self.takeovers_errors = ...
ParseL49(t) ==
    /\ pc[t] = "l49"
    /\ parser' = parse_l49(parser, engage_metadata(index_topic[t]),
                           takeovers_metadata(index_topic[t]))
    /\ pc' = [pc EXCEPT ![t] = "l51"]
    /\ UNCHANGED <<call, forum_index, index_topic, last_call>>

\* lines 51-53, and the return or the exception of parse_topic
ParseL51(t) ==
    /\ pc[t] = "l51"
    /\ parser' = parse_l51(parser, index_topic[t]).self
    /\ pc' = [pc EXCEPT ![t] = "idle"]
    /\ index_topic' = [index_topic EXCEPT ![t] = NoTopic]
    /\ UNCHANGED <<call, forum_index, last_call>>

\* the attributes of the snapshot
Snapshot(self) ==
    [url_map |-> self.url_map, warnings |-> self.warnings,
     metadata |-> self.metadata, takeovers |-> self.takeovers]

\* another thread reads the snapshot attributes of the parser
Read ==
    /\ last_call' = [op |-> "read", exc |-> None, snapshot |-> Snapshot(parser)]
    /\ UNCHANGED <<call, forum_index, parser, pc, index_topic>>

NextConc ==
    \/ EditServedIndexTopic
    \/ Read
    \/ \E t \in Threads :
           \/ ParseL28(t)
           \/ ParseL35(t)
           \/ ParseL42(t)
           \/ ParseL43(t)
           \/ ParseL48(t)
           \/ ParseL49(t)
           \/ ParseL51(t)

SpecConc == InitConc /\ [][NextConc]_vars

\* the snapshots a parser holds before its first parse() and after a parse()
\* that ran alone
WholeSnapshots ==
    {Snapshot(NewParser(<<"/", "e">>))}
    \cup {Snapshot(parse(NewParser(<<"/", "e">>), t).self) : t \in ReturningIndexTopics}

\* C1: every read sees all four attributes from one snapshot: the one before
\* a parse() or the one after it, never url_map of one with metadata or
\* takeovers of another.
C1_ReadsSeeWholeSnapshot ==
    last_call.op = "read" => last_call.snapshot \in WholeSnapshots

(***************************************************************************)
(* discourse_docs/parsers.py: get_section.  A soup is the sequence of its  *)
(* top-level elements; an element has a name, the text directly inside it  *)
(* and its child elements.                                                 *)
(***************************************************************************)
Element(name, text, children) == [name |-> name, text |-> text, children |-> children]

Token(kind, val) == [kind |-> kind, val |-> val]

RECURSIVE str_elements(_)
\* "".join(map(str, elements)): the markup of the elements, as tokens
str_elements(elements) ==
    IF elements = <<>> THEN <<>>
    ELSE <<Token("open", elements[1].name)>>
         \o (IF elements[1].text = "" THEN <<>> ELSE <<Token("text", elements[1].text)>>)
         \o str_elements(elements[1].children)
         \o <<Token("close", elements[1].name)>>
         \o str_elements(Tail(elements))

RECURSIVE parse_html(_, _)
\* the elements read from position p on, up to the closing tag of the
\* enclosing element or the end, and the position reached
parse_html(tokens, p) ==
    IF p > Len(tokens) \/ tokens[p].kind # "open" THEN [elements |-> <<>>, next |-> p]
    ELSE CHOOSE out \in
             {CHOOSE res \in
                  {[elements |-> <<Element(tokens[p].val, text, inner.elements)>>
                                    \o rest.elements,
                    next |-> rest.next] :
                      rest \in {parse_html(tokens, inner.next + 1)}} : TRUE :
                 text \in {IF p + 1 <= Len(tokens) /\ tokens[p + 1].kind = "text"
                           THEN tokens[p + 1].val ELSE ""},
                 inner \in {parse_html(tokens,
                                       IF p + 1 <= Len(tokens) /\ tokens[p + 1].kind = "text"
                                       THEN p + 2 ELSE p + 1)}} : TRUE

\* BeautifulSoup(html, features="html.parser")
BeautifulSoup(html) == parse_html(html, 1).elements

RECURSIVE descendants(_)
\* the elements of a soup in document order, each with its siblings and its
\* position among them
descendants(elements) ==
    concat([i \in 1..Len(elements) |->
               <<[siblings |-> elements, index |-> i]>>
                   \o descendants(elements[i].children)])

NotFound == [found |-> FALSE, siblings |-> <<>>, index |-> 0]

\* the first of the given elements in document order, if any
first_of(all, hits) ==
    IF hits = {} THEN NotFound
    ELSE [found |-> TRUE,
          siblings |-> all[CHOOSE k \in hits : \A j \in hits : k <= j].siblings,
          index |-> all[CHOOSE k \in hits : \A j \in hits : k <= j].index]

IsHeadingName(name) == name \in {"h1", "h2", "h3", "h4", "h5", "h6"}

\* soup.find(re.compile("^h[1-6]$"), text=title_text)
find_heading(soup, title_text) ==
    CHOOSE out \in
        {first_of(all, {k \in 1..Len(all) :
                           /\ IsHeadingName(all[k].siblings[all[k].index].name)
                           /\ all[k].siblings[all[k].index].text = title_text}) :
            all \in {descendants(soup)}} : TRUE

\* soup.find(name)
find_tag(soup, name) ==
    CHOOSE out \in
        {first_of(all, {k \in 1..Len(all) : all[k].siblings[all[k].index].name = name}) :
            all \in {descendants(soup)}} : TRUE

fetchNextSiblings(e) == SubSeq(e.siblings, e.index + 1, Len(e.siblings))

\* the previous siblings, the nearest first
fetchPreviousSiblings(e) == [i \in 1..(e.index - 1) |-> e.siblings[e.index - i]]

reverse(list) == [i \in 1..Len(list) |-> list[Len(list) + 1 - i]]

\* get_section(soup, title_text): is_none for the None returned when no
\* heading has the text
get_section(soup, title_text) ==
    CHOOSE out \in
        {IF ~heading.found THEN [is_none |-> TRUE, soup |-> <<>>]
         ELSE CHOOSE res \in
                  {CHOOSE fin \in
                       {IF next_heading.found
                        THEN [is_none |-> FALSE,
                              soup |-> BeautifulSoup(str_elements(
                                           reverse(fetchPreviousSiblings(next_heading))))]
                        ELSE [is_none |-> FALSE, soup |-> section_soup] :
                           next_heading \in {find_tag(section_soup,
                                                      heading.siblings[heading.index].name)}} :
                           TRUE :
                      section_soup \in {BeautifulSoup(str_elements(
                                           fetchNextSiblings(heading)))}} : TRUE :
            heading \in {find_heading(soup, title_text)}} : TRUE

MaxSiblings == 3

\* elements without children, and the elements found inside a div
SectionLeaves ==
    {Element("h2", "H", <<>>), Element("h2", "N", <<>>), Element("h3", "H", <<>>),
     Element("p", "a", <<>>)}

SectionInner == {Element("h2", "H", <<>>), Element("h2", "N", <<>>), Element("p", "x", <<>>)}

SectionElements ==
    SectionLeaves
    \cup {Element("div", "", c) : c \in UNION {[1..n -> SectionInner] : n \in 1..2}}

SectionSoups == UNION {[1..n -> SectionElements] : n \in 0..MaxSiblings}

InitSection ==
    /\ call \in {[fn |-> "get_section", args |-> [soup |-> soup, title_text |-> title],
                  done |-> FALSE, ret |-> [is_none |-> TRUE, soup |-> <<>>]] :
                    soup \in SectionSoups, title \in {"H", "Z"}}
    /\ NoParser

CallGetSection ==
    /\ ~call.done
    /\ call' = [call EXCEPT !.done = TRUE,
                            !.ret = get_section(call.args.soup, call.args.title_text)]
    /\ UNCHANGED <<forum_index, parser, pc, index_topic, last_call>>

NextSection == CallGetSection

SpecSection == InitSection /\ [][NextSection]_vars

\* the siblings following position index up to, and not including, the next
\* sibling of the given name
UpToNext(siblings, index, name) ==
    LET stops == {k \in (index + 1)..Len(siblings) : siblings[k].name = name}
        stop == IF stops = {} THEN Len(siblings) + 1
                ELSE CHOOSE k \in stops : \A j \in stops : k <= j
    IN  SubSeq(siblings, index + 1, stop - 1)

\* C10: get_section returns None when no heading has the text, and otherwise
\* the siblings following the first such heading, in order, up to and not
\* including the next sibling heading of the same level, also when a heading
\* of that level is nested inside one of these siblings.
C10_SectionUpToNextHeading ==
    call.done =>
        LET heading == find_heading(call.args.soup, call.args.title_text)
        IN  IF ~heading.found THEN call.ret.is_none
            ELSE /\ ~call.ret.is_none
                 /\ call.ret.soup = UpToNext(heading.siblings, heading.index,
                                             heading.siblings[heading.index].name)

(***************************************************************************)
(* Successive parse() calls, with parse_topic calls between them.  call    *)
(* keeps what the last two parse() calls fetched and left behind, and      *)
(* whether a parse_topic between them wrote to self.metadata.              *)
(***************************************************************************)
\* what one parse() call fetched, how it ended and what it left behind
ParseOutcome(topic, exc, self) ==
    [parsed |-> TRUE, topic |-> topic, exc |-> exc, url_map |-> self.url_map,
     metadata |-> self.metadata, warnings |-> self.warnings]

NoParseYet ==
    [parsed |-> FALSE, topic |-> NoTopic, exc |-> None, url_map |-> <<>>,
     metadata |-> <<>>, warnings |-> <<>>]

InitAgain ==
    /\ call = [first |-> NoParseYet, second |-> NoParseYet,
               written |-> FALSE, written_between |-> FALSE]
    /\ forum_index \in IndexTopics
    /\ parser = NewParser(<<"/", "e">>)
    /\ pc = <<>>
    /\ index_topic = <<>>
    /\ last_call = [op |-> "init", exc |-> None]

ParseAgain ==
    /\ \E r \in {parse(parser, forum_index)} :
           /\ parser' = r.self
           /\ last_call' = [op |-> "parse", exc |-> r.exc]
           /\ call' = [first |-> call.second,
                       second |-> ParseOutcome(forum_index, r.exc, r.self),
                       written |-> FALSE, written_between |-> call.written]
    /\ UNCHANGED <<forum_index, pc, index_topic>>

ParseTopicBetween ==
    /\ Ready
    /\ \E topic \in Topics : \E r \in {parse_topic(parser, topic)} :
           /\ parser' = r.self
           /\ last_call' = [op |-> "parse_topic", exc |-> r.exc]
           /\ call' = [call EXCEPT !.written = @ \/ r.self.metadata # parser.metadata]
    /\ UNCHANGED <<forum_index, pc, index_topic>>

NextAgain == EditIndexTopic \/ ParseAgain \/ ParseTopicBetween

SpecAgain == InitAgain /\ [][NextAgain]_vars

\* the last two parse() calls fetched the same raw index topic
SameTopicTwice ==
    /\ call.first.parsed
    /\ call.second.parsed
    /\ call.first.topic = call.second.topic

\* C11: two successive parse() calls that fetched the same raw index topic
\* end alike and leave the same url_map, metadata and warnings, whatever
\* parse_topic calls ran between them.
C11_ParseTwiceSameSnapshot ==
    SameTopicTwice =>
        /\ call.second.exc = call.first.exc
        /\ call.second.url_map = call.first.url_map
        /\ call.second.metadata = call.first.metadata
        /\ call.second.warnings = call.first.warnings

\* two returned parse() calls of one raw topic with a parse_topic between
\* them that wrote to self.metadata
C11_Witness ==
    /\ SameTopicTwice
    /\ call.second.exc = None
    /\ call.written_between
    /\ call.second.metadata # <<>>

(***************************************************************************)
(* A caller keeps the first Document parse_topic returned after a parse()  *)
(* while parse_topic is called again.  The Document's "metadata" is the    *)
(* dict object held in self.metadata (lines 98-107, 116), so what the      *)
(* caller reads from it is what that object holds now.  call keeps the     *)
(* Document as returned (doc), as read now (now), and self.metadata as the *)
(* last parse() left it (records).                                         *)
(***************************************************************************)
NoneKept(records) ==
    [kept |-> FALSE, doc |-> NoDocument, now |-> NoDocument, records |-> records]

InitKeep ==
    /\ call = NoneKept(<<>>)
    /\ forum_index \in IndexTopics
    /\ parser = NewParser(<<"/", "e">>)
    /\ pc = <<>>
    /\ index_topic = <<>>
    /\ last_call = [op |-> "init", exc |-> None]

\* parse() rebinds self.metadata to a new list of new dicts
ParseKeep ==
    /\ \E r \in {parse(parser, forum_index)} :
           /\ parser' = r.self
           /\ last_call' = [op |-> "parse", exc |-> r.exc]
           /\ call' = NoneKept(r.self.metadata)
    /\ UNCHANGED <<forum_index, pc, index_topic>>

ParseTopicKeep ==
    /\ Ready
    /\ \E topic \in Topics : \E r \in {parse_topic(parser, topic)} :
           /\ parser' = r.self
           /\ last_call' = [op |-> "parse_topic", exc |-> r.exc]
           /\ call' = IF call.kept
                      THEN [call EXCEPT !.now.metadata = r.self.metadata[call.doc.metadata_ref]]
                      ELSE IF r.exc = None
                      THEN [call EXCEPT !.kept = TRUE, !.doc = r.doc, !.now = r.doc]
                      ELSE call
    /\ UNCHANGED <<forum_index, pc, index_topic>>

NextKeep == EditIndexTopic \/ ParseKeep \/ ParseTopicKeep

SpecKeep == InitKeep /\ [][NextKeep]_vars

\* C12: through later parse_topic calls with no parse() between, a Document
\* keeps the fields it was returned with, its metadata mapping included, and
\* the records of self.metadata keep the values parse() gave them.
C12_DocumentNeverMutated ==
    /\ call.kept => call.now = call.doc
    /\ parser.metadata = call.records

(***************************************************************************)
(* app.py: Docs.document_view and EngagePages.document_view, one request,  *)
(* one call of the handler per step.  call is the request: the view, the   *)
(* handler's locals, the calls made so far (events) and the response.      *)
(* What the parser and the API return is chosen freely.                    *)
(***************************************************************************)
ViewUrlPrefix == <<"/", "e">>

ViewIndexTopicId == 1

\* the topic ids resolve_path may return
ViewTopicIds == {1, 4, 9}

\* the path of the route, without the leading slash
ViewRoutePaths == {<<>>, <<"a">>, <<"t", "/", "s", "/", "1">>}

NoResponse == [kind |-> "none", target |-> <<>>, status |-> 0]
Redirect(target) == [kind |-> "redirect", target |-> target, status |-> 302]
Abort(status) == [kind |-> "abort", target |-> <<>>, status |-> status]
Rendered == [kind |-> "render", target |-> <<>>, status |-> 200]

\* a slip: the check is made against no topic at all
is_index_topic_never(topic_id, index_topic_id) == FALSE

\* lines 124 and 238: topic_id == self.parser.index_topic_id
is_index_topic(topic_id, index_topic_id) == topic_id = index_topic_id

\* lines 111 and 225: path = "/" + path
InitView ==
    /\ call \in {[view |-> v, path |-> <<"/">> \o p, at |-> "parse", events |-> <<>>,
                  resolved |-> FALSE, topic_id |-> 0, category_id |-> c,
                  topic_category_id |-> 0, in_url_map |-> FALSE,
                  topic_path |-> <<>>, active |-> "", preview |-> pv,
                  response |-> NoResponse] :
                    v \in {"Docs", "EngagePages"}, p \in ViewRoutePaths,
                    c \in {0, 2}, pv \in BOOLEAN}
    /\ NoParser

\* lines 112-115 and 226-229: self.parser.parse(), which may raise, and the
\* index document for the root path
ViewParse ==
    /\ call.at = "parse"
    /\ \E raised \in BOOLEAN :
           call' = IF raised
                   THEN [call EXCEPT !.events = Append(@, "parse"), !.at = "done",
                                     !.response = Abort(500)]
                   ELSE IF call.path = <<"/">>
                   THEN [call EXCEPT !.events = Append(@, "parse"), !.at = "respond"]
                   ELSE [call EXCEPT !.events = Append(@, "parse"), !.at = "resolve"]
    /\ UNCHANGED <<forum_index, parser, pc, index_topic, last_call>>

\* lines 117-122 and 233-236: resolve_path and its exceptions; only the Docs
\* view catches RedirectFoundError
ViewResolvePath ==
    /\ call.at = "resolve"
    /\ \/ \E id \in ViewTopicIds :
              call' = [call EXCEPT !.events = Append(@, "resolve_path"), !.at = "check",
                                   !.resolved = TRUE, !.topic_id = id]
       \/ call' = [call EXCEPT !.events = Append(@, "resolve_path"), !.at = "done",
                               !.response = Abort(404)]
       \/ /\ call.view = "Docs"
          /\ call' = [call EXCEPT !.events = Append(@, "resolve_path"), !.at = "done",
                                  !.response = Redirect(<<"/", "e", "/", "a">>)]
    /\ UNCHANGED <<forum_index, parser, pc, index_topic, last_call>>

\* lines 124-125 and 238-239
ViewIndexCheck ==
    /\ call.at = "check"
    /\ call' = IF is_index_topic(call.topic_id, ViewIndexTopicId)
               THEN [call EXCEPT !.at = "done", !.response = Redirect(ViewUrlPrefix)]
               ELSE [call EXCEPT !.at = "get_topic"]
    /\ UNCHANGED <<forum_index, parser, pc, index_topic, last_call>>

\* lines 127-130 and 241-244: self.parser.api.get_topic(topic_id)
ViewGetTopic ==
    /\ call.at = "get_topic"
    /\ \/ \E status \in {404, 500} :
              call' = [call EXCEPT !.events = Append(@, "get_topic"), !.at = "done",
                                   !.response = Abort(status)]
       \/ \E c \in {2, 3} :
              call' = [call EXCEPT !.events = Append(@, "get_topic"),
                                   !.at = "parse_topic", !.topic_category_id = c]
    /\ UNCHANGED <<forum_index, parser, pc, index_topic, last_call>>

\* lines 132 and 246: document = self.parser.parse_topic(topic)
ViewParseTopic ==
    /\ call.at = "parse_topic"
    /\ \/ call' = [call EXCEPT !.events = Append(@, "parse_topic"), !.at = "done",
                               !.response = Abort(500)]
       \/ \E tp \in {call.path, <<"/", "t", "/", "s", "/", "4">>} :
          \E m \in BOOLEAN : \E a \in {"", "true", "false"} :
              call' = [call EXCEPT !.events = Append(@, "parse_topic"), !.at = "respond",
                                   !.topic_path = tp, !.in_url_map = m, !.active = a]
    /\ UNCHANGED <<forum_index, parser, pc, index_topic, last_call>>

\* lines 134-163 and 248-267: the redirects to the forum or to the topic's
\* own path, or the rendered template
ViewRespond ==
    /\ call.at = "respond"
    /\ call' =
           IF call.path = <<"/">>
           THEN [call EXCEPT !.events = Append(@, "render_template"), !.at = "done",
                             !.response = Rendered]
           ELSE IF call.view = "Docs" /\ call.category_id # 0
                   /\ call.topic_category_id # call.category_id
           THEN [call EXCEPT !.at = "done",
                             !.response = Redirect(<<"forum">> \o call.topic_path)]
           ELSE IF call.view = "Docs" /\ ~call.in_url_map /\ call.topic_path # call.path
           THEN [call EXCEPT !.at = "done", !.response = Redirect(call.topic_path)]
           ELSE IF call.view = "EngagePages" /\ ~call.preview /\ call.active = "false"
           THEN [call EXCEPT !.at = "done",
                             !.response = Redirect(<<"forum">> \o call.topic_path)]
           ELSE [call EXCEPT !.events = Append(@, "render_template"), !.at = "done",
                             !.response = Rendered]
    /\ UNCHANGED <<forum_index, parser, pc, index_topic, last_call>>

NextView ==
    \/ ViewParse
    \/ ViewResolvePath
    \/ ViewIndexCheck
    \/ ViewGetTopic
    \/ ViewParseTopic
    \/ ViewRespond

SpecView == InitView /\ [][NextView]_vars

\* the handler made the call
Called(name) == \E i \in 1..Len(call.events) : call.events[i] = name

Tag(name, has_class, class) == [name |-> name, has_class |-> has_class, class |-> class]

NOTE_TO_EDITORS == "NOTE TO EDITORS"

\* text.parent.parent.parent.parent for the text node of a branch: the
\* element four levels up, the soup object, or AttributeError when a parent
\* on the way is None
fourth_parent(branch) ==
    IF Len(branch.elems) >= 4
    THEN [exc |-> None, is_soup |-> FALSE, tag |-> branch.elems[Len(branch.elems) - 3]]
    ELSE IF Len(branch.elems) = 3
    THEN [exc |-> None, is_soup |-> TRUE, tag |-> Tag("[document]", FALSE, {})]
    ELSE [exc |-> "AttributeError", is_soup |-> FALSE, tag |-> Tag("", FALSE, {})]

\* lines 141-142: the condition, which reads attrs["class"] of an aside, and
\* container.decompose(); removed: the branch is gone, else what is left of it
note_step(branch) ==
    CHOOSE out \in
        {IF container.exc # None
         THEN [exc |-> container.exc, removed |-> FALSE, branch |-> branch]
         ELSE IF container.tag.name # "aside"
         THEN [exc |-> None, removed |-> FALSE, branch |-> branch]
         ELSE IF ~container.tag.has_class
         THEN [exc |-> "KeyError", removed |-> FALSE, branch |-> branch]
         ELSE IF "quote" \notin container.tag.class
         THEN [exc |-> None, removed |-> FALSE, branch |-> branch]
         ELSE IF Len(branch.elems) = 4
         THEN [exc |-> None, removed |-> TRUE, branch |-> branch]
         ELSE [exc |-> None, removed |-> FALSE,
               branch |-> [elems |-> SubSeq(branch.elems, 1, Len(branch.elems) - 4),
                           text |-> ""]] :
            container \in {fourth_parent(branch)}} : TRUE

RECURSIVE notes_loop(_, _, _)
\* the loop over soup.find_all(text="NOTE TO EDITORS"), from the n-th branch
\* on; done holds the branches already passed
notes_loop(soup, n, done) ==
    IF n > Len(soup) THEN [exc |-> None, soup |-> done]
    ELSE IF soup[n].text # NOTE_TO_EDITORS THEN notes_loop(soup, n + 1, Append(done, soup[n]))
    ELSE CHOOSE out \in
             {IF r.exc # None
              THEN [exc |-> r.exc, soup |-> done \o SubSeq(soup, n, Len(soup))]
              ELSE notes_loop(soup, n + 1, IF r.removed THEN done ELSE Append(done, r.branch)) :
                 r \in {note_step(soup[n])}} : TRUE

\* replace_notes_to_editors(soup): the outcome and the soup afterwards
replace_notes_to_editors(soup) == notes_loop(soup, 1, <<>>)

MaxDepth == 5

MaxBranches == 2

\* the documents: up to MaxBranches nests of up to MaxDepth elements around a
\* text node, with an aside (of class quote, of another class, without class
\* attribute) or another element four levels above the text
NoteSoups ==
    LET Containers ==
            {Tag("aside", TRUE, {"quote", "no-group"}), Tag("aside", TRUE, {"x"}),
             Tag("aside", FALSE, {}), Tag("blockquote", FALSE, {})}
        NoteBranches ==
            {[elems |-> [i \in 1..d |-> IF i = d - 3 THEN c ELSE Tag("p", FALSE, {})],
              text |-> t] :
                d \in 0..MaxDepth, c \in Containers, t \in {NOTE_TO_EDITORS, "other"}}
    IN  UNION {[1..n -> NoteBranches] : n \in 0..MaxBranches}

InitNotes ==
    /\ call \in {[fn |-> "replace_notes_to_editors", args |-> soup, done |-> FALSE,
                  ret |-> [exc |-> None, soup |-> <<>>]] : soup \in NoteSoups}
    /\ NoParser

CallReplaceNotesToEditors ==
    /\ ~call.done
    /\ call' = [call EXCEPT !.done = TRUE, !.ret = replace_notes_to_editors(call.args)]
    /\ UNCHANGED <<forum_index, parser, pc, index_topic, last_call>>

NextNotes == CallReplaceNotesToEditors

SpecNotes == InitNotes /\ [][NextNotes]_vars

\* the text node of the branch is the marker and the element four levels
\* above it is an aside of class quote
QuoteNote(branch) ==
    /\ branch.text = NOTE_TO_EDITORS
    /\ Len(branch.elems) >= 4
    /\ branch.elems[Len(branch.elems) - 3].name = "aside"
    /\ branch.elems[Len(branch.elems) - 3].has_class
    /\ "quote" \in branch.elems[Len(branch.elems) - 3].class

\* what is left of a branch without the element four levels above its text
WithoutContainer(branch) ==
    [elems |-> SubSeq(branch.elems, 1, Len(branch.elems) - 4), text |-> ""]

RECURSIVE NotesRemoved(_)
\* the document without the quote asides around a marker
NotesRemoved(soup) ==
    IF soup = <<>> THEN <<>>
    ELSE IF ~QuoteNote(Head(soup)) THEN <<Head(soup)>> \o NotesRemoved(Tail(soup))
    ELSE IF Len(Head(soup).elems) = 4 THEN NotesRemoved(Tail(soup))
    ELSE <<WithoutContainer(Head(soup))>> \o NotesRemoved(Tail(soup))

\* C14: replace_notes_to_editors never raises; it removes the aside of class
\* quote found four levels above a marker text node and leaves every other
\* marker (fewer than four ancestors, another element four levels up, an
\* aside without class attribute) and the rest of the document unchanged.
C14_NotesRemovedNeverRaises ==
    call.done =>
        /\ call.ret.exc = None
        /\ call.ret.soup = NotesRemoved(call.args)

====
